---- MODULE Spec2Model ----
(***************************************************************************)
(* A model of httomolibgpu/misc/morph.py: the 360 -> 180 degree sinogram   *)
(* stitch sino_360_to_180 and its memory estimator                         *)
(* _calc_max_slices_sino_360_to_180; and of httomolibgpu/recon/algorithm.py:*)
(* FBP, SIRT and CGLS up to their call of the toolkit, and their estimators.*)
(*                                                                         *)
(* Arrays are records [shape, dtype, elems]; elems maps a 0-based index    *)
(* tuple to a number.  Numbers are exact fractions <<num, den>> in lowest  *)
(* terms with den > 0 (the bounds keep every weight and product exactly    *)
(* representable in binary floating point).  Device memory is a heap of    *)
(* buffers, so that an array and a view of it share a buffer.              *)
(***************************************************************************)
EXTENDS Integers, Sequences, FiniteSets, TLC

\* ------------------------------------------------------------------ bounds
MaxP == 3
MaxR == 1
MaxC == 4
MaxElems == 8
MaxMem == 64

\* ----------------------------------------------------------------- numbers
Abs(x) == IF x < 0 THEN -x ELSE x

RECURSIVE Gcd(_, _)
Gcd(a, b) == IF b = 0 THEN a ELSE Gcd(b, a % b)

Frac(num, den) == LET g == Gcd(Abs(num), den) IN <<num \div g, den \div g>>

FAdd(a, b) == Frac(a[1] * b[2] + b[1] * a[2], a[2] * b[2])

FMul(a, b) == Frac(a[1] * b[1], a[2] * b[2])

FNeg(a) == <<-a[1], a[2]>>

\* np.round: to the nearest integer, a tie to the even neighbour
np_round(q) ==
    LET f  == q[1] \div q[2]
        r2 == 2 * (q[1] - f * q[2])
    IN  IF r2 < q[2] THEN f
        ELSE IF r2 > q[2] THEN f + 1
        ELSE IF f % 2 = 0 THEN f ELSE f + 1

\* the conversion applied when a float64 value is stored into an array
Truncate(q) == IF q[1] >= 0 THEN q[1] \div q[2] ELSE -((-q[1]) \div q[2])

IntegerDtypes == {"uint16"}

Cast(q, dtype) == IF dtype \in IntegerDtypes THEN <<Truncate(q), 1>> ELSE q

result_type(dtype) == "float64"

itemsize(dtype) == IF dtype = "uint16" THEN 2 ELSE IF dtype = "float32" THEN 4 ELSE 8

\* cp.linspace(start, stop, num), as a sequence
linspace(start, stop, num) ==
    [i \in 1..num |->
        IF num = 1 THEN start
        ELSE FAdd(start, FMul(Frac(i - 1, num - 1), FAdd(stop, FNeg(start))))]

\* ------------------------------------------------------------------ arrays
\* the content of a buffer that cp.empty returned and nothing wrote yet
Uninit == <<0, 0>>

Indices(shape) ==
    IF Len(shape) = 2
    THEN {<<i, j>> : i \in 0..(shape[1] - 1), j \in 0..(shape[2] - 1)}
    ELSE IF Len(shape) = 3
    THEN {<<i, j, k>> : i \in 0..(shape[1] - 1), j \in 0..(shape[2] - 1),
                        k \in 0..(shape[3] - 1)}
    ELSE {<<h, i, j, k>> : h \in 0..(shape[1] - 1), i \in 0..(shape[2] - 1),
                           j \in 0..(shape[3] - 1), k \in 0..(shape[4] - 1)}

cp_empty(shape, dtype) ==
    [shape |-> shape, dtype |-> dtype, elems |-> [idx \in Indices(shape) |-> Uninit]]

\* Python's resolution of one slice bound against an axis of length len
NormIndex(i, len) ==
    IF i < 0 THEN (IF len + i < 0 THEN 0 ELSE len + i)
    ELSE IF i > len THEN len ELSE i

\* the indices a slice selects, in order, as a sequence
Range(a, b) == [k \in 1..(IF b > a THEN b - a ELSE 0) |-> a + k - 1]

\* [a:]
SliceFrom(a, len) == Range(NormIndex(a, len), len)

\* [:b]
SliceTo(b, len) == Range(0, NormIndex(b, len))

\* [a:b]
SliceRange(a, b, len) == Range(NormIndex(a, len), NormIndex(b, len))

\* arr[rows, :, cols] for a 3-D arr
View(arr, rows, cols) ==
    LET shape == <<Len(rows), arr.shape[2], Len(cols)>>
    IN  [shape |-> shape, dtype |-> arr.dtype,
         elems |-> [idx \in Indices(shape) |->
                      arr.elems[<<rows[idx[1] + 1], idx[2], cols[idx[3] + 1]>>]]]

\* arr[:, :, ::-1]
ReverseCols(arr) ==
    [arr EXCEPT !.elems =
        [idx \in Indices(arr.shape) |->
            arr.elems[<<idx[1], idx[2], arr.shape[3] - 1 - idx[3]>>]]]

BroadcastDim(x, y) == IF x = 1 THEN y ELSE x

\* weights * arr: a 1-D vector broadcast along the last axis of a 3-D array
MulWeights(w, arr) ==
    LET shape == <<arr.shape[1], arr.shape[2], BroadcastDim(Len(w), arr.shape[3])>>
    IN  [shape |-> shape, dtype |-> result_type(arr.dtype),
         elems |-> [idx \in Indices(shape) |->
                      FMul(w[IF Len(w) = 1 THEN 1 ELSE idx[3] + 1],
                           arr.elems[<<idx[1], idx[2],
                                       IF arr.shape[3] = 1 THEN 0 ELSE idx[3]>>])]]

\* a + b for two arrays of one shape
AddArrays(a, b) ==
    [shape |-> a.shape, dtype |-> result_type(a.dtype),
     elems |-> [idx \in Indices(a.shape) |-> FAdd(a.elems[idx], b.elems[idx])]]

\* whether a value of shape vshape can be stored into a target of shape tshape
CanAssign(vshape, tshape) ==
    \A d \in 1..3 : vshape[d] = tshape[d] \/ vshape[d] = 1

TargetShape(arr, cols) == <<arr.shape[1], arr.shape[2], Len(cols)>>

\* arr[:, :, cols] = v, the value converted to arr's element type
SetCols(arr, cols, v) ==
    [arr EXCEPT !.elems =
        [idx \in Indices(arr.shape) |->
            IF \E k \in 1..Len(cols) : cols[k] = idx[3]
            THEN LET k == CHOOSE kk \in 1..Len(cols) : cols[kk] = idx[3]
                 IN  Cast(v.elems[<<IF v.shape[1] = 1 THEN 0 ELSE idx[1],
                                    IF v.shape[2] = 1 THEN 0 ELSE idx[2],
                                    IF v.shape[3] = 1 THEN 0 ELSE k - 1>>],
                          arr.dtype)
            ELSE arr.elems[idx]]]

\* ------------------------------------------- the statements of the stitch
\* Each statement out[:, :, cols] = value is given as [cols, value]; d is the
\* input array, o the output array, n = dx // 2, ov the rounded overlap and
\* w the weights.

HalfCount(dx) == dx \div 2

FirstHalfRows(d, n) == SliceTo(n, d.shape[1])

\* data[dx - n:] in place of data[n : 2 * n]
SecondHalfRows_tail(d, n) == SliceRange(d.shape[1] - n, d.shape[1], d.shape[1])

SecondHalfRows(d, n) == SliceRange(n, 2 * n, d.shape[1])

left_weights(ov) == linspace(<<0, 1>>, <<1, 1>>, ov)

\* line 97 with the ramp of line 89
right_weights_rising(ov) == linspace(<<0, 1>>, <<1, 1>>, ov)

right_weights(ov) == linspace(<<1, 1>>, <<0, 1>>, ov)

left_first(d, o, n, ov) ==
    [cols  |-> SliceFrom(-d.shape[3] + ov, o.shape[3]),
     value |-> View(d, FirstHalfRows(d, n), SliceFrom(ov, d.shape[3]))]

\* line 91 without its [:, :, ::-1]
left_second_unreversed(d, o, n, ov) ==
    [cols  |-> SliceTo(d.shape[3] - ov, o.shape[3]),
     value |-> View(d, SecondHalfRows(d, n), SliceFrom(ov, d.shape[3]))]

left_second(d, o, n, ov) ==
    [cols  |-> SliceTo(d.shape[3] - ov, o.shape[3]),
     value |-> ReverseCols(View(d, SecondHalfRows(d, n), SliceFrom(ov, d.shape[3])))]

left_blend(d, o, n, ov, w) ==
    [cols  |-> SliceRange(d.shape[3] - ov, d.shape[3], o.shape[3]),
     value |-> AddArrays(
                 MulWeights(w, View(d, FirstHalfRows(d, n), SliceTo(ov, d.shape[3]))),
                 ReverseCols(MulWeights(w,
                     View(d, SecondHalfRows(d, n), SliceTo(ov, d.shape[3])))))]

right_first(d, o, n, ov) ==
    [cols  |-> SliceTo(d.shape[3] - ov, o.shape[3]),
     value |-> View(d, FirstHalfRows(d, n), SliceTo(-ov, d.shape[3]))]

right_second(d, o, n, ov) ==
    [cols  |-> SliceFrom(-d.shape[3] + ov, o.shape[3]),
     value |-> ReverseCols(View(d, SecondHalfRows(d, n), SliceTo(-ov, d.shape[3])))]

right_blend(d, o, n, ov, w) ==
    [cols  |-> SliceRange(d.shape[3] - ov, d.shape[3], o.shape[3]),
     value |-> AddArrays(
                 MulWeights(w, View(d, FirstHalfRows(d, n), SliceFrom(-ov, d.shape[3]))),
                 ReverseCols(MulWeights(w,
                     View(d, SecondHalfRows(d, n), SliceFrom(-ov, d.shape[3])))))]

Assignable(o, stmt) == CanAssign(stmt.value.shape, TargetShape(o, stmt.cols))

Store(o, stmt) == SetCols(o, stmt.cols, stmt.value)

OutShape(d, n, ov) == <<n, d.shape[2], 2 * d.shape[3] - ov>>

\* ------------------------------------------------------------------- state
VARIABLES
    heap,         \* device memory: buffer id -> array
    data,         \* argument: the buffer of the input array
    overlap_arg,  \* argument: overlap as passed, a fraction
    rotation,     \* argument
    pc,           \* the statement about to run
    overlap,      \* local: the rounded overlap
    n,            \* local
    out,          \* local: the buffer of the output array, NoBuffer while unbound
    weights,      \* local
    ret,          \* the returned buffer, NoBuffer while nothing was returned
    err,          \* the error raised, "" while none
    est           \* the memory estimator's call: its arguments and its result

vars == <<heap, data, overlap_arg, rotation, pc, overlap, n, out, weights, ret, err, est>>

NoBuffer == 0

Max(S) == CHOOSE x \in S : \A y \in S : y <= x

\* an allocation that hands out a buffer already in use
ReusedBuffer(h) == Max(DOMAIN h)

\* the id of the buffer a new allocation returns
FreshBuffer(h) == Max(DOMAIN h) + 1

Values == {<<0, 1>>, <<1, 1>>}

DTypes == {"float32", "uint16"}

Rotations == {"left", "right", "up"}

Shapes3D ==
    {<<p, r, c>> : p \in 0..MaxP, r \in 0..MaxR, c \in 0..MaxC}

OtherShapes == {<<2, 2>>, <<1, 2, 1, 2>>}

Arrays(shapes) ==
    UNION {[shape : {s}, dtype : DTypes, elems : [Indices(s) -> Values]] :
             s \in {t \in shapes : Cardinality(Indices(t)) <= MaxElems}}

LastDim(a) == a.shape[Len(a.shape)]

OverlapArgs(a) == {Frac(h, 2) : h \in -2..(2 * LastDim(a) + 1)}

NoEst == [pc |-> "idle"]

Init ==
    /\ data = 1
    /\ \E a \in Arrays(Shapes3D) \cup Arrays(OtherShapes) :
          /\ heap = (1 :> a)
          /\ overlap_arg \in OverlapArgs(a)
    /\ rotation \in Rotations
    /\ pc = "check_ndim"
    /\ overlap = 0
    /\ n = 0
    /\ out = NoBuffer
    /\ weights = <<>>
    /\ ret = NoBuffer
    /\ err = ""
    /\ est = NoEst

Raise(e) ==
    /\ pc' = "raised"
    /\ err' = e

\* lines 73-76
CheckNdim ==
    /\ pc = "check_ndim"
    /\ IF Len(heap[data].shape) # 3
       THEN Raise("ndim")
       ELSE pc' = "check_overlap" /\ err' = err
    /\ UNCHANGED <<heap, data, overlap_arg, rotation, overlap, n, out, weights, ret, est>>

\* lines 78-82
CheckOverlap ==
    /\ pc = "check_overlap"
    /\ overlap' = np_round(overlap_arg)
    /\ IF overlap' >= heap[data].shape[3]
       THEN Raise("overlap_ge")
       ELSE IF overlap' < 0
       THEN Raise("overlap_negative")
       ELSE pc' = "allocate" /\ err' = err
    /\ UNCHANGED <<heap, data, overlap_arg, rotation, n, out, weights, ret, est>>

\* lines 84-86
Allocate ==
    /\ pc = "allocate"
    /\ n' = HalfCount(heap[data].shape[1])
    /\ out' = FreshBuffer(heap)
    /\ heap' = (out' :> cp_empty(OutShape(heap[data], n', overlap), heap[data].dtype))
                 @@ heap
    /\ pc' = "branch"
    /\ UNCHANGED <<data, overlap_arg, rotation, overlap, weights, ret, err, est>>

\* one assignment into out: it stores, or raises when the shapes do not agree
Assign(stmt, next) ==
    IF Assignable(heap[out], stmt)
    THEN /\ heap' = [heap EXCEPT ![out] = Store(@, stmt)]
         /\ pc' = next
         /\ err' = err
    ELSE /\ heap' = heap
         /\ Raise("broadcast")

\* lines 88-90
LeftFirst ==
    /\ pc = "branch"
    /\ rotation = "left"
    /\ weights' = left_weights(overlap)
    /\ Assign(left_first(heap[data], heap[out], n, overlap), "left_second")
    /\ UNCHANGED <<data, overlap_arg, rotation, overlap, n, out, ret, est>>

\* line 91
LeftSecond ==
    /\ pc = "left_second"
    /\ Assign(left_second(heap[data], heap[out], n, overlap), "left_blend")
    /\ UNCHANGED <<data, overlap_arg, rotation, overlap, n, out, weights, ret, est>>

\* lines 92-95
LeftBlend ==
    /\ pc = "left_blend"
    /\ Assign(left_blend(heap[data], heap[out], n, overlap, weights), "return")
    /\ UNCHANGED <<data, overlap_arg, rotation, overlap, n, out, weights, ret, est>>

\* lines 96-98
RightFirst ==
    /\ pc = "branch"
    /\ rotation = "right"
    /\ weights' = right_weights(overlap)
    /\ Assign(right_first(heap[data], heap[out], n, overlap), "right_second")
    /\ UNCHANGED <<data, overlap_arg, rotation, overlap, n, out, ret, est>>

\* line 99
RightSecond ==
    /\ pc = "right_second"
    /\ Assign(right_second(heap[data], heap[out], n, overlap), "right_blend")
    /\ UNCHANGED <<data, overlap_arg, rotation, overlap, n, out, weights, ret, est>>

\* lines 100-103
RightBlend ==
    /\ pc = "right_blend"
    /\ Assign(right_blend(heap[data], heap[out], n, overlap, weights), "return")
    /\ UNCHANGED <<data, overlap_arg, rotation, overlap, n, out, weights, ret, est>>

\* lines 104-105 without the raise: the call falls through to the return
RaiseRotation_fallthrough ==
    /\ pc = "branch"
    /\ rotation # "left"
    /\ rotation # "right"
    /\ pc' = "return"
    /\ UNCHANGED <<heap, data, overlap_arg, rotation, overlap, n, out, weights, ret,
                   err, est>>

\* lines 104-105
RaiseRotation ==
    /\ pc = "branch"
    /\ rotation # "left"
    /\ rotation # "right"
    /\ Raise("rotation")
    /\ UNCHANGED <<heap, data, overlap_arg, rotation, overlap, n, out, weights, ret, est>>

\* line 107
Return ==
    /\ pc = "return"
    /\ ret' = out
    /\ pc' = "done"
    /\ UNCHANGED <<heap, data, overlap_arg, rotation, overlap, n, out, weights, err, est>>

Next ==
    \/ CheckNdim
    \/ CheckOverlap
    \/ Allocate
    \/ LeftFirst
    \/ LeftSecond
    \/ LeftBlend
    \/ RightFirst
    \/ RightSecond
    \/ RightBlend
    \/ RaiseRotation
    \/ Return

Spec == Init /\ [][Next]_vars

\* ------------------------------------------ the stitch as one function
RECURSIVE RunStatements(_, _)
RunStatements(o, stmts) ==
    IF stmts = <<>> THEN [err |-> "", out |-> o]
    ELSE IF ~Assignable(o, Head(stmts)) THEN [err |-> "broadcast"]
    ELSE RunStatements(Store(o, Head(stmts)), Tail(stmts))

\* the outcome of sino_360_to_180(d, ov_arg, rot): the error raised, or the
\* array returned
sino_360_to_180(d, ov_arg, rot) ==
    IF Len(d.shape) # 3 THEN [err |-> "ndim"]
    ELSE LET ov == np_round(ov_arg) IN
    IF ov >= d.shape[3] THEN [err |-> "overlap_ge"]
    ELSE IF ov < 0 THEN [err |-> "overlap_negative"]
    ELSE LET nn == HalfCount(d.shape[1])
             o  == cp_empty(OutShape(d, nn, ov), d.dtype)
         IN  IF rot = "left"
             THEN RunStatements(o, <<left_first(d, o, nn, ov),
                                     left_second(d, o, nn, ov),
                                     left_blend(d, o, nn, ov, left_weights(ov))>>)
             ELSE IF rot = "right"
             THEN RunStatements(o, <<right_first(d, o, nn, ov),
                                     right_second(d, o, nn, ov),
                                     right_blend(d, o, nn, ov, right_weights(ov))>>)
             ELSE [err |-> "rotation"]

\* --------------------------------------------------- the memory estimator
Float64Bytes == 8

FDiv(a, b) ==
    IF b[1] > 0 THEN Frac(a[1] * b[2], a[2] * b[1])
    ELSE Frac(-(a[1] * b[2]), a[2] * (-b[1]))

Floor(q) == q[1] \div q[2]

in_slice(other_dims, dtype) == other_dims[1] * other_dims[2] * itemsize(dtype)

out_slice(other_dims, dtype, ov) ==
    FMul(Frac(other_dims[1] * (other_dims[2] * 2 - ov), 2), <<itemsize(dtype), 1>>)

weights_bytes(ov) == ov * Float64Bytes

SliceBytes(other_dims, dtype, ov) ==
    FAdd(<<in_slice(other_dims, dtype), 1>>, out_slice(other_dims, dtype, ov))

\* np.ceil in place of np.floor
max_slices_ceil(available, per_slice) ==
    -Floor(FDiv(<<-available, 1>>, per_slice))

\* int(np.floor(available_memory / (in_slice + out_slice)))
max_slices(available, per_slice) == Floor(FDiv(<<available, 1>>, per_slice))

EstCalls ==
    {[pc |-> "call", other_dims |-> <<d0, d1>>, dtype |-> t,
      available_memory |-> m, overlap |-> Frac(h, 2),
      max_slices |-> 0, out_dtype |-> ""] :
        d0 \in 0..MaxP, d1 \in 0..MaxC, t \in DTypes, m \in 0..MaxMem,
        h \in -2..(2 * MaxC + 1)}

\* _calc_max_slices_sino_360_to_180, lines 34-45
CalcMaxSlices ==
    /\ est.pc = "call"
    /\ LET ov  == np_round(est.overlap)
           per == SliceBytes(est.other_dims, est.dtype, ov)
           mem == est.available_memory - weights_bytes(ov)
       IN  IF per[1] = 0
           THEN est' = [est EXCEPT !.pc = "raised"]
           ELSE est' = [est EXCEPT !.pc = "returned",
                                   !.max_slices = max_slices(mem, per),
                                   !.out_dtype = est.dtype]
    /\ UNCHANGED <<heap, data, overlap_arg, rotation, pc, overlap, n, out, weights,
                   ret, err>>

InitMem ==
    /\ data = 1
    /\ heap = (1 :> cp_empty(<<0, 0, 0>>, "float32"))
    /\ overlap_arg = <<0, 1>>
    /\ rotation = "left"
    /\ pc = "idle"
    /\ overlap = 0
    /\ n = 0
    /\ out = NoBuffer
    /\ weights = <<>>
    /\ ret = NoBuffer
    /\ err = ""
    /\ est \in EstCalls

NextMem == CalcMaxSlices

SpecMem == InitMem /\ [][NextMem]_vars

\* ------------------------------------------------------------ the claims
D == heap[data]

Is3D == Len(D.shape) = 3

P == D.shape[1]

R == D.shape[2]

C == D.shape[3]

Terminated == pc \in {"done", "raised"}

\* the overlap passed is a whole number in [lo, C)
IntOverlapIn(lo) ==
    /\ overlap_arg[2] = 1
    /\ lo <= overlap_arg[1]
    /\ overlap_arg[1] < C

LeftOrRight == rotation \in {"left", "right"}

Returned == heap[ret]

\* the ramps of the claims, indexed by the blend column 0..ov-1
RampUp(ov) == [m \in 0..(ov - 1) |-> IF ov = 1 THEN <<0, 1>> ELSE Frac(m, ov - 1)]

RampDown(ov) == [m \in 0..(ov - 1) |-> IF ov = 1 THEN <<1, 1>> ELSE Frac(ov - 1 - m, ov - 1)]

\* C1: every call with a 3-D input, a whole overlap in [0, C) and rotation
\* "left" or "right" returns an array of shape (P // 2, R, 2*C - overlap)
\* whose element type is the input's.
C1_ShapeAndDtype ==
    (Terminated /\ Is3D /\ IntOverlapIn(0) /\ LeftOrRight) =>
        /\ pc = "done"
        /\ Returned.shape = <<P \div 2, R, 2 * C - overlap_arg[1]>>
        /\ Returned.dtype = D.dtype

\* the three bands of a "left" result; conv converts the blended value
LeftBands(conv(_)) ==
    LET ov == overlap_arg[1]
        h  == P \div 2
        w  == RampUp(ov)
    IN  \A i \in 0..(h - 1), j \in 0..(R - 1) :
          /\ \A k \in 0..(C - ov - 1) :
                Returned.elems[<<i, j, k>>] = D.elems[<<h + i, j, C - 1 - k>>]
          /\ \A k \in C..(2 * C - ov - 1) :
                Returned.elems[<<i, j, k>>] = D.elems[<<i, j, ov + (k - C)>>]
          /\ \A m \in 0..(ov - 1) :
                Returned.elems[<<i, j, C - ov + m>>] =
                    conv(FAdd(FMul(w[m], D.elems[<<i, j, m>>]),
                              FMul(w[ov - 1 - m], D.elems[<<h + i, j, ov - 1 - m>>])))

Exactly(q) == q

AsInputType(q) == Cast(q, D.dtype)

\* C2 as stated: a "left" result is the three bands, the blend band equal to
\* w*first + reverse_cols(w*second) itself.
C2_LeftBandsExact ==
    (pc = "done" /\ rotation = "left" /\ IntOverlapIn(0)) => LeftBands(Exactly)

\* C2 as amended: a "left" result is the three bands, which cover all
\* 2*C - overlap columns; the blend band is w*first + reverse_cols(w*second)
\* converted to the input's element type (an integer type drops the fraction).
C2_LeftBands ==
    (pc = "done" /\ rotation = "left" /\ IntOverlapIn(0)) =>
        /\ LeftBands(AsInputType)
        /\ \A idx \in Indices(Returned.shape) : Returned.elems[idx] # Uninit

C2_Witness ==
    /\ pc = "done"
    /\ rotation = "left"
    /\ overlap_arg = <<3, 1>>
    /\ D.shape = <<2, 1, 4>>
    /\ D.dtype = "uint16"
    /\ D.elems[<<0, 0, 1>>] = <<1, 1>>
    /\ D.elems[<<1, 0, 1>>] = <<0, 1>>
    /\ Returned.elems[<<0, 0, 2>>] = <<0, 1>>

\* the three bands of a "right" result; conv converts the blended value
RightBands(conv(_)) ==
    LET ov == overlap_arg[1]
        h  == P \div 2
        w  == RampDown(ov)
    IN  \A i \in 0..(h - 1), j \in 0..(R - 1) :
          /\ \A k \in 0..(C - ov - 1) :
                Returned.elems[<<i, j, k>>] = D.elems[<<i, j, k>>]
          /\ \A k \in C..(2 * C - ov - 1) :
                Returned.elems[<<i, j, k>>] = D.elems[<<h + i, j, C - ov - 1 - (k - C)>>]
          /\ \A m \in 0..(ov - 1) :
                Returned.elems[<<i, j, C - ov + m>>] =
                    conv(FAdd(FMul(w[m], D.elems[<<i, j, C - ov + m>>]),
                              FMul(w[ov - 1 - m], D.elems[<<h + i, j, C - 1 - m>>])))

\* C3 as stated: a "right" result with 1 <= overlap < C is the three bands,
\* the blend band equal to w*first + reverse_cols(w*second) itself.
C3_RightBandsExact ==
    (pc = "done" /\ rotation = "right" /\ IntOverlapIn(1)) => RightBands(Exactly)

\* C3 as amended: a "right" result with 1 <= overlap < C is the three bands,
\* which cover all 2*C - overlap columns; the blend band is
\* w*first + reverse_cols(w*second) converted to the input's element type.
C3_RightBands ==
    (pc = "done" /\ rotation = "right" /\ IntOverlapIn(1)) =>
        /\ RightBands(AsInputType)
        /\ \A idx \in Indices(Returned.shape) : Returned.elems[idx] # Uninit

C3_Witness ==
    /\ pc = "done"
    /\ rotation = "right"
    /\ overlap_arg = <<3, 1>>
    /\ D.shape = <<2, 1, 4>>
    /\ D.dtype = "uint16"
    /\ D.elems[<<0, 0, 2>>] = <<1, 1>>
    /\ D.elems[<<1, 0, 2>>] = <<0, 1>>
    /\ Returned.elems[<<0, 0, 2>>] = <<0, 1>>

\* C4: with overlap 0 and C >= 1 the call succeeds and returns the two halves
\* side by side, the second half column-reversed: second then first for
\* "left", first then second for "right".
C4_ZeroOverlapConcatenates ==
    (Terminated /\ Is3D /\ C >= 1 /\ overlap_arg = <<0, 1>> /\ LeftOrRight) =>
        /\ pc = "done"
        /\ LET h == P \div 2
           IN  \A i \in 0..(h - 1), j \in 0..(R - 1), k \in 0..(C - 1) :
                 IF rotation = "left"
                 THEN /\ Returned.elems[<<i, j, k>>] = D.elems[<<h + i, j, C - 1 - k>>]
                      /\ Returned.elems[<<i, j, C + k>>] = D.elems[<<i, j, k>>]
                 ELSE /\ Returned.elems[<<i, j, k>>] = D.elems[<<i, j, k>>]
                      /\ Returned.elems[<<i, j, C + k>>] = D.elems[<<h + i, j, C - 1 - k>>]

\* C5: the range check applies to the rounded overlap: a 3-D call with
\* rotation "left" or "right" fails with a range error when the rounded
\* overlap is >= C or < 0, and succeeds when it is in [0, C).
C5_RangeCheckAfterRounding ==
    (Terminated /\ Is3D /\ LeftOrRight) =>
        LET r == np_round(overlap_arg)
        IN  /\ (r >= C \/ r < 0) => err \in {"overlap_ge", "overlap_negative"}
            /\ (0 <= r /\ r < C) => pc = "done"

ValidationErrors == {"ndim", "overlap_ge", "overlap_negative", "rotation"}

NothingAllocated == out = NoBuffer /\ DOMAIN heap = {data}

NothingWritten ==
    \A b \in DOMAIN heap \ {data} :
        \A idx \in Indices(heap[b].shape) : heap[b].elems[idx] = Uninit

\* C6 as stated: every validation failure (dimensions, overlap, rotation) is
\* raised before the output buffer is allocated and before any element of it
\* is written; an invalid rotation always fails; no failing call returns.
C6_FailBeforeAllocation ==
    /\ err \in ValidationErrors => (NothingAllocated /\ NothingWritten)
    /\ (Terminated /\ ~LeftOrRight) => err # ""
    /\ err # "" => ret = NoBuffer

\* C6 as amended: every validation failure is raised before any element of
\* the output is written; the dimension and overlap failures are raised
\* before the output buffer is allocated, an invalid rotation only after it
\* was allocated; an invalid rotation always fails; no failing call returns.
C6_FailBeforeWrite ==
    /\ err \in ValidationErrors => NothingWritten
    /\ err \in {"ndim", "overlap_ge", "overlap_negative"} => NothingAllocated
    /\ err = "rotation" => (out # NoBuffer /\ out \in DOMAIN heap)
    /\ (Terminated /\ ~LeftOrRight) => err # ""
    /\ err # "" => ret = NoBuffer

C6_Witness ==
    /\ pc = "raised"
    /\ err = "rotation"
    /\ rotation = "up"
    /\ out # NoBuffer
    /\ Cardinality(Indices(heap[out].shape)) >= 4

\* d with every element of its last projection, row P-1, overwritten by c
LastRowFilled(d, c) ==
    [d EXCEPT !.elems = [idx \in Indices(d.shape) |->
                           IF idx[1] = d.shape[1] - 1 THEN c ELSE d.elems[idx]]]

\* what the call in progress produced: the error raised, or the array returned
Outcome == IF err # "" THEN [err |-> err] ELSE [err |-> "", out |-> Returned]

\* C7: with an odd number of projections the last one is discarded: every
\* call ends as the call on its input with row P-1 overwritten does, whatever
\* the value written there, so that two inputs that differ only in row P-1
\* (they are the same once row P-1 is overwritten) give the same output; and
\* row P-1 is in neither half read (rows [0, n) and [n, 2n), n = P // 2).
C7_LastProjectionDiscarded ==
    (Terminated /\ Is3D /\ P % 2 = 1) =>
        /\ \A c \in Values :
              sino_360_to_180(LastRowFilled(D, c), overlap_arg, rotation) = Outcome
        /\ LET h == HalfCount(P)
           IN  /\ \A k \in DOMAIN FirstHalfRows(D, h) :
                     FirstHalfRows(D, h)[k] = k - 1 /\ k - 1 < h
               /\ \A k \in DOMAIN SecondHalfRows(D, h) :
                     SecondHalfRows(D, h)[k] = h + k - 1 /\ h + k - 1 < 2 * h
               /\ Len(FirstHalfRows(D, h)) = h
               /\ Len(SecondHalfRows(D, h)) = h

C7_Witness ==
    /\ pc = "done"
    /\ D.shape = <<3, 1, 2>>
    /\ overlap_arg = <<1, 1>>
    /\ \A k \in 0..1 : D.elems[<<2, 0, k>>] = <<1, 1>>
    /\ \A i \in 0..1, k \in 0..1 : D.elems[<<i, 0, k>>] = <<0, 1>>
    /\ \A idx \in Indices(Returned.shape) : Returned.elems[idx] = <<0, 1>>

\* C8: no step of a call changes the input array, whether the call returns
\* or raises, and the array returned is a buffer other than the input's.
C8_InputNeverMutated ==
    [][/\ data' = data
       /\ heap'[data] = heap[data]
       /\ (out = NoBuffer /\ out' # NoBuffer) => out' \notin DOMAIN heap
       /\ ret' # NoBuffer => (ret' = out' /\ ret' # data)]_vars

C8_Witness ==
    /\ pc = "done"
    /\ ret # NoBuffer
    /\ ret # data
    /\ D.shape = <<2, 1, 2>>
    /\ \E idx \in Indices(Returned.shape) : Returned.elems[idx] # D.elems[<<0, 0, 0>>]

\* C9: for the arguments of a call the stitch accepts (d0 >= 1,
\* 0 <= overlap < d1), the estimator returns the input dtype and the largest
\* s with s*(in_slice + out_slice) + weights <= available_memory, where
\* out_slice is at least the bytes per slice of the array the stitch
\* allocates, (d0 // 2)*(2*d1 - overlap)*itemsize.  Stated on doubled byte
\* counts, which are whole numbers.
C9_MaxSlicesFitsBudget ==
    LET d0    == est.other_dims[1]
        d1    == est.other_dims[2]
        ov    == np_round(est.overlap)
        isz   == IF est.dtype = "uint16" THEN 2 ELSE 4
        in2   == 2 * d0 * d1 * isz
        out2  == d0 * (2 * d1 - ov) * isz
        w2    == 2 * 8 * ov
        s     == est.max_slices
    IN  (est.pc # "call" /\ est.pc # "idle" /\ d0 >= 1 /\ 0 <= ov /\ ov < d1) =>
            /\ est.pc = "returned"
            /\ est.out_dtype = est.dtype
            /\ s * (in2 + out2) + w2 <= 2 * est.available_memory
            /\ (s + 1) * (in2 + out2) + w2 > 2 * est.available_memory
            /\ out2 >= 2 * ((d0 \div 2) * (2 * d1 - ov) * isz)

C9_Witness ==
    /\ est.pc = "returned"
    /\ est.other_dims = <<3, 2>>
    /\ est.overlap = <<1, 1>>
    /\ est.dtype = "uint16"
    /\ est.available_memory = 64
    /\ est.max_slices = 2

\* C10: for every overlap with 1 <= overlap < C and rotation "left" or
\* "right" the call succeeds and the blend is a convex combination: in each
\* blend column the weight of the first-half sample plus the weight of the
\* second-half sample is 1, and each half has weight 1 in the blend column
\* next to its own band.
C10_ConvexCrossFade ==
    (Terminated /\ Is3D /\ IntOverlapIn(1) /\ LeftOrRight) =>
        /\ pc = "done"
        /\ Len(weights) = overlap
        /\ \A m \in 1..overlap :
              FAdd(weights[m], weights[overlap + 1 - m]) = <<1, 1>>
        /\ IF rotation = "left"
           THEN weights[overlap] = <<1, 1>>
           ELSE weights[1] = <<1, 1>>

\* ================================== recon/algorithm.py: FBP, SIRT and CGLS
\* An Optional argument is a sequence: <<>> is None, <<v>> is the value v.
\* The variable est holds a call of one reconstruction method: the
\* arguments, the estimator's position and result, and the function's
\* position and the arguments it hands to the toolkit.

MaxReconMem == 64

Float32Bytes == 4

Complex64Bytes == 8

Methods == {"FBP", "SIRT", "CGLS"}

\* the shape the decorator hands to an estimator: data.shape without the
\* slicing dimension, which for a sinogram method is dimension 1
non_slice_dims(shape) == <<shape[1], shape[3]>>

\* non_slice_dims_shape[0] in place of non_slice_dims_shape[1]
DetectorsLengthH_first(dims) == dims[1]

\* DetectorsLengthH = non_slice_dims_shape[1]
DetectorsLengthH(dims) == dims[2]

\* objsize = kwargs['objsize']; if objsize is None: objsize = DetectorsLengthH
est_objsize(dims, objsize) ==
    IF objsize = <<>> THEN DetectorsLengthH(dims) ELSE objsize[1]

output_dims(dims, objsize) == <<est_objsize(dims, objsize), est_objsize(dims, objsize)>>

filter_size(dims) == (DetectorsLengthH(dims) \div 2 + 1) * Float32Bytes

freq_slice(dims) == dims[1] * (DetectorsLengthH(dims) \div 2 + 1) * Complex64Bytes

\* int(in_slice_size + filtered_in_data + freq_slice + fftplan_size + astra_out_size)
fbp_slice_bytes(dims, dtype, objsize) ==
    LET in_slice_size    == dims[1] * dims[2] * itemsize(dtype)
        fftplan_size     == freq_slice(dims) * 2
        filtered_in_data == dims[1] * dims[2] * Float32Bytes
        od               == output_dims(dims, objsize)
        astra_out_size   == od[1] * od[2] * Float32Bytes
    IN  in_slice_size + filtered_in_data + freq_slice(dims) + fftplan_size
          + astra_out_size

\* 0.5*(x_rec+data_out)
astra_size(x_rec, data_out) == FMul(<<1, 2>>, <<x_rec + data_out, 1>>)

\* int(data_out + x_rec + R_mat + C_mat + C_R_res + astra_size)
sirt_total_mem(dims, dtype, objsize) ==
    LET od       == output_dims(dims, objsize)
        data_out == dims[1] * dims[2] * itemsize(dtype)
        x_rec    == od[1] * od[2] * itemsize(dtype)
        R_mat    == data_out
        C_mat    == x_rec
        C_R_res  == C_mat + 2 * R_mat
    IN  Truncate(FAdd(<<data_out + x_rec + R_mat + C_mat + C_R_res, 1>>,
                      astra_size(x_rec, data_out)))

\* int(data_out + x_rec + d + r + Ad + s + astra_size)
cgls_total_mem(dims, dtype, objsize) ==
    LET od       == output_dims(dims, objsize)
        data_out == dims[1] * dims[2] * itemsize(dtype)
        x_rec    == od[1] * od[2] * itemsize(dtype)
        d        == x_rec
        r        == data_out
        Ad       == 2 * data_out
        ss       == x_rec
    IN  Truncate(FAdd(<<data_out + x_rec + d + r + Ad + ss, 1>>,
                      astra_size(x_rec, data_out)))

\* slices_max = available_memory // total, for total > 0
slices_max(available, per_slice) == available \div per_slice

\* if center is None: center = data.shape[2] // 2
recon_center(shape, center) ==
    IF center = <<>> THEN <<shape[3] \div 2, 1>> ELSE <<center[1], 1>>

\* if objsize is None: objsize = data.shape[2]
recon_objsize(shape, objsize) == IF objsize = <<>> THEN shape[3] ELSE objsize[1]

\* the arguments of RecToolsDIRCuPy / RecToolsIRCuPy
toolkit_args(shape, center, objsize) ==
    [DetectorsDimH   |-> shape[3],
     DetectorsDimV   |-> shape[2],
     CenterRotOffset |-> FAdd(FAdd(Frac(shape[3], 2), FNeg(recon_center(shape, center))),
                              <<-1, 2>>),
     ObjSize         |-> recon_objsize(shape, objsize)]

\* the sinogram stacks handed to a reconstruction
ReconShapes == {<<p, MaxR, c>> : p \in 0..MaxP, c \in 0..MaxC}

ReconCalls ==
    {[method |-> m, shape |-> sh, dtype |-> t, available_memory |-> mem,
      objsize |-> o, center |-> c,
      est_pc |-> "pending", total |-> 0, slices_max |-> 0, out_dtype |-> "",
      output_dims |-> <<>>,
      fn_pc |-> "pending", toolkit |-> <<>>] :
        m \in Methods, sh \in ReconShapes, t \in DTypes, mem \in 0..MaxReconMem,
        o \in {<<>>} \cup {<<k>> : k \in 0..MaxC}, c \in {<<>>, <<1>>}}

\* the estimator of a method: it returns, or raises when a slice takes no bytes
Estimate(per_slice, available) ==
    IF per_slice = 0
    THEN est' = [est EXCEPT !.est_pc = "raised", !.total = per_slice]
    ELSE est' = [est EXCEPT !.est_pc = "returned",
                            !.total = per_slice,
                            !.slices_max = slices_max(available, per_slice),
                            !.out_dtype = "float32",
                            !.output_dims =
                                output_dims(non_slice_dims(est.shape), est.objsize)]

ReconIdle ==
    UNCHANGED <<heap, data, overlap_arg, rotation, pc, overlap, n, out, weights,
                ret, err>>

\* _calc_max_slices_FBP, lines 41-64
CalcMaxSlicesFBP ==
    /\ est.method = "FBP"
    /\ est.est_pc = "pending"
    /\ Estimate(fbp_slice_bytes(non_slice_dims(est.shape), est.dtype, est.objsize),
                est.available_memory - filter_size(non_slice_dims(est.shape)))
    /\ ReconIdle

\* _calc_max_slices_SIRT, lines 119-144
CalcMaxSlicesSIRT ==
    /\ est.method = "SIRT"
    /\ est.est_pc = "pending"
    /\ Estimate(sirt_total_mem(non_slice_dims(est.shape), est.dtype, est.objsize),
                est.available_memory)
    /\ ReconIdle

\* _calc_max_slices_CGLS, lines 206-231
CalcMaxSlicesCGLS ==
    /\ est.method = "CGLS"
    /\ est.est_pc = "pending"
    /\ Estimate(cgls_total_mem(non_slice_dims(est.shape), est.dtype, est.objsize),
                est.available_memory)
    /\ ReconIdle

\* a reconstruction function up to its call of the toolkit
Reconstruct ==
    est' = [est EXCEPT !.fn_pc = "returned",
                       !.toolkit = toolkit_args(est.shape, est.center, est.objsize)]

\* FBP, lines 101-115
FBP ==
    /\ est.method = "FBP"
    /\ est.fn_pc = "pending"
    /\ Reconstruct
    /\ ReconIdle

\* SIRT, lines 187-203
SIRT ==
    /\ est.method = "SIRT"
    /\ est.fn_pc = "pending"
    /\ Reconstruct
    /\ ReconIdle

\* CGLS, lines 273-289
CGLS ==
    /\ est.method = "CGLS"
    /\ est.fn_pc = "pending"
    /\ Reconstruct
    /\ ReconIdle

InitRecon ==
    /\ data = 1
    /\ heap = (1 :> cp_empty(<<0, 0, 0>>, "float32"))
    /\ overlap_arg = <<0, 1>>
    /\ rotation = "left"
    /\ pc = "idle"
    /\ overlap = 0
    /\ n = 0
    /\ out = NoBuffer
    /\ weights = <<>>
    /\ ret = NoBuffer
    /\ err = ""
    /\ est \in ReconCalls

NextRecon ==
    \/ CalcMaxSlicesFBP
    \/ CalcMaxSlicesSIRT
    \/ CalcMaxSlicesCGLS
    \/ FBP
    \/ SIRT
    \/ CGLS

SpecRecon == InitRecon /\ [][NextRecon]_vars

\* C11: for FBP, SIRT and CGLS an estimator that returns reports float32,
\* the output dims (objsize, objsize) with a None objsize replaced by the
\* detector width data.shape[2], and s = available // per-slice bytes, the
\* largest s with s * per-slice bytes <= available memory (less the filter
\* size for FBP); the ObjSize the function hands to the toolkit is that same
\* size.
C11_EstimatorAgreesWithRecon ==
    LET width == est.shape[3]
        size  == IF est.objsize = <<>> THEN width ELSE est.objsize[1]
        avail == IF est.method = "FBP"
                 THEN est.available_memory - (width \div 2 + 1) * 4
                 ELSE est.available_memory
    IN  /\ est.est_pc = "returned" =>
              /\ est.out_dtype = "float32"
              /\ est.output_dims = <<size, size>>
              /\ est.total > 0
              /\ est.slices_max * est.total <= avail
              /\ (est.slices_max + 1) * est.total > avail
        /\ est.fn_pc = "returned" =>
              /\ est.toolkit.ObjSize = size
              /\ est.toolkit.DetectorsDimH = width
        /\ (est.est_pc = "returned" /\ est.fn_pc = "returned") =>
              est.output_dims = <<est.toolkit.ObjSize, est.toolkit.ObjSize>>

C11_Witness ==
    /\ est.method = "FBP"
    /\ est.shape[1] = 1
    /\ est.shape[3] = 1
    /\ est.dtype = "float32"
    /\ est.objsize = <<>>
    /\ est.available_memory = 64
    /\ est.est_pc = "returned"
    /\ est.fn_pc = "returned"
    /\ est.output_dims = <<1, 1>>
    /\ est.toolkit.ObjSize = 1
    /\ est.slices_max = 1

====
